---- MODULE Spec2Model ----
(***************************************************************************)
(* Model of src/server/pkg/collection/collection.go: typed collections     *)
(* with secondary indexes over a transactional key-value store.            *)
(*                                                                         *)
(* Strings are sequences of one-character strings, so that prefix          *)
(* matching, path cleaning and (de)serialization are computed rather than  *)
(* assumed.                                                                *)
(***************************************************************************)
EXTENDS Integers, Sequences, FiniteSets, TLC

VARIABLES
    store,      \* committed key-value store: path -> [val, rev]
    rev,        \* store revision (one per committed transaction)
    wset,       \* write set of the open transaction: path -> [del, val]
    txCalls,    \* collection calls made on the open transaction
    calls,      \* collection calls made so far
    last,       \* the last collection call, its result and the ops it queued
    prev,       \* the collection call before the last one
    events,     \* raw watch events produced by the last commit
    counts,     \* per counter key: the value created and the increments and
                \* decrements that succeeded since
    sub,        \* the WatchByIndex subscription: [index, val]
    wpc,        \* position of the writer racing with the subscription
    others,     \* writes made by other writers while the subscription is open
    indirectCh, \* raw index events not yet received by the forwarding task
    tr,         \* the forwarding task: [pc, ev, directEv]
    eventCh,    \* what the subscriber has seen on the output channel: the
                \* events received, and a "closed" entry for each close
    ctx,        \* the read-only view's context: "live" or "cancelled"
    upClosed,   \* the raw event channel has been closed by the watch
    recving,    \* the subscriber is still receiving from the output channel
    seen,       \* raw events the forwarding task handled, with the outcome
                \* of the dereference of each
    cols,       \* two collections built by NewCollection
    wrote,      \* <<i, path>>: a call on cols[i] queued a put of path
    it,         \* an iterator returned by GetByIndex, and what it yielded
    pk,         \* two keys and the primary paths derived for them
    txs         \* concurrent transactions on counters:
                \* id -> [pc, rset, w, did, retried]

watchVars == <<sub, wpc, others, indirectCh, tr, eventCh>>

fwdVars == <<ctx, upClosed, recving, seen>>

moreVars == <<cols, wrote, it, pk, txs>>

vars == <<store, rev, wset, txCalls, calls, last, prev, events, counts, watchVars,
          fwdVars, moreVars>>

(***************************************************************************)
(* Bounds                                                                  *)
(***************************************************************************)
MaxCalls == 3
MaxIntCalls == 4
MaxOthers == 1
MaxMixedCalls == 2
MaxTwoCalls == 2
MaxIterWrites == 3
MaxKeyLen == 3
MaxTxs == 2
MaxTxCalls == 2

(***************************************************************************)
(* Strings                                                                 *)
(***************************************************************************)
Slash == "/"

HasPrefix(s, p) ==
    /\ Len(p) <= Len(s)
    /\ SubSeq(s, 1, Len(p)) = p

RECURSIVE TrimRightSlash(_)
TrimRightSlash(s) ==
    IF s /= <<>> /\ s[Len(s)] = Slash
    THEN TrimRightSlash(SubSeq(s, 1, Len(s) - 1))
    ELSE s

\* segments of s between separators, empty segments included; cur is where
\* the running segment starts
RECURSIVE SplitFrom(_, _, _)
SplitFrom(s, i, cur) ==
    IF i > Len(s) THEN <<SubSeq(s, cur, Len(s))>>
    ELSE IF s[i] = Slash THEN <<SubSeq(s, cur, i - 1)>> \o SplitFrom(s, i + 1, i + 1)
    ELSE SplitFrom(s, i + 1, cur)

Split(s) == SplitFrom(s, 1, 1)

RECURSIVE JoinSegs(_)
JoinSegs(segs) ==
    IF segs = <<>> THEN <<>>
    ELSE IF Len(segs) = 1 THEN segs[1]
    ELSE segs[1] \o <<Slash>> \o JoinSegs(Tail(segs))

DotDot == <<".", ".">>

\* path.Clean's walk over the segments: out is the stack of kept segments
RECURSIVE CleanSegs(_, _, _)
CleanSegs(segs, out, rooted) ==
    IF segs = <<>> THEN out
    ELSE LET seg == Head(segs)
             rest == Tail(segs)
         IN  IF seg = <<>> \/ seg = <<".">> THEN CleanSegs(rest, out, rooted)
             ELSE IF seg = DotDot
             THEN IF out /= <<>> /\ out[Len(out)] /= DotDot
                  THEN CleanSegs(rest, SubSeq(out, 1, Len(out) - 1), rooted)
                  ELSE IF rooted THEN CleanSegs(rest, out, rooted)
                  ELSE CleanSegs(rest, Append(out, seg), rooted)
             ELSE CleanSegs(rest, Append(out, seg), rooted)

\* Go's path.Clean
Clean(p) ==
    IF p = <<>> THEN <<".">>
    ELSE LET rooted == p[1] = Slash
             body == JoinSegs(CleanSegs(Split(p), <<>>, rooted))
         IN  IF rooted THEN <<Slash>> \o body
             ELSE IF body = <<>> THEN <<".">>
             ELSE body

\* Go's path.Join for two elements
Join(a, b) ==
    IF a /= <<>> THEN Clean(a \o <<Slash>> \o b)
    ELSE IF b /= <<>> THEN Clean(b)
    ELSE <<>>

\* Go's path.Base
Base(p) ==
    IF p = <<>> THEN <<".">>
    ELSE LET t == TrimRightSlash(p)
             segs == Split(t)
         IN  IF t = <<>> THEN <<Slash>> ELSE segs[Len(segs)]

(***************************************************************************)
(* Collection and path derivation                                          *)
(***************************************************************************)
\* NewCollection keeping the prefix as given
NewCollectionRaw(prefix, indexes) ==
    [prefix |-> prefix, indexes |-> indexes]

NewCollection(prefix, indexes) ==
    [prefix |-> IF Len(prefix) > 0 /\ prefix[Len(prefix)] /= Slash
                THEN prefix \o <<Slash>>
                ELSE prefix,
     indexes |-> indexes]

IndexMarker == <<"_", "_", "i", "n", "d", "e", "x", "_">>

path(c, key) == Join(c.prefix, key)

indexDir(c, index, indexVal) ==
    TrimRightSlash(c.prefix) \o IndexMarker \o index \o <<Slash>> \o indexVal

indexPath(c, index, indexVal, key) == Join(indexDir(c, index, indexVal), key)

(***************************************************************************)
(* Records and their text serialization                                    *)
(***************************************************************************)
IdxA == <<"A">>
IdxB == <<"B">>

Quote == "\""

NoRecord == [A |-> <<>>, B |-> <<>>]

\* reflect ... FieldByName(string(index)), printed with %s
FieldByName(val, index) == IF index = IdxA THEN val.A ELSE val.B

\* one field in the compact text format; a field at its default is omitted
FieldText(name, v) ==
    IF v = <<>> THEN <<>> ELSE name \o <<":", Quote>> \o v \o <<Quote, " ">>

\* val.String()
Marshal(val) == FieldText(IdxA, val.A) \o FieldText(IdxB, val.B)

\* index of the first occurrence of ch in s at or after i, 0 if none
RECURSIVE IndexFrom(_, _, _)
IndexFrom(s, ch, i) ==
    IF i > Len(s) THEN 0
    ELSE IF s[i] = ch THEN i
    ELSE IndexFrom(s, ch, i + 1)

\* proto.UnmarshalText: name:"value" fields separated by blanks, into a reset message
RECURSIVE ParseFields(_, _)
ParseFields(text, rec) ==
    IF text = <<>> THEN [ok |-> TRUE, val |-> rec]
    ELSE IF text[1] = " " THEN ParseFields(Tail(text), rec)
    ELSE LET colon == IndexFrom(text, ":", 1)
             close == IF colon = 0 THEN 0 ELSE IndexFrom(text, Quote, colon + 2)
         IN  IF colon = 0 \/ colon + 1 > Len(text) \/ text[colon + 1] /= Quote \/ close = 0
             THEN [ok |-> FALSE, val |-> rec]
             ELSE LET name == SubSeq(text, 1, colon - 1)
                      v == SubSeq(text, colon + 2, close - 1)
                      rest == SubSeq(text, close + 1, Len(text))
                  IN  IF name = IdxA THEN ParseFields(rest, [rec EXCEPT !.A = v])
                      ELSE IF name = IdxB THEN ParseFields(rest, [rec EXCEPT !.B = v])
                      ELSE [ok |-> FALSE, val |-> rec]

UnmarshalText(text) == ParseFields(text, NoRecord)

(***************************************************************************)
(* The transaction (STM): reads see the transaction's own writes           *)
(***************************************************************************)
Upd(f, x, v) == [y \in DOMAIN f \cup {x} |-> IF y = x THEN v ELSE f[y]]

EmptyMap == [y \in {} |-> 0]

\* tx = [w |-> write set, ops |-> ops queued by the running call]
stmGet(tx, st, p) ==
    IF p \in DOMAIN tx.w THEN (IF tx.w[p].del THEN <<>> ELSE tx.w[p].val)
    ELSE IF p \in DOMAIN st THEN st[p].val
    ELSE <<>>

stmPut(tx, p, v) ==
    [w |-> Upd(tx.w, p, [del |-> FALSE, val |-> v]),
     ops |-> Append(tx.ops, [op |-> "put", path |-> p, val |-> v])]

stmDel(tx, p) ==
    [w |-> Upd(tx.w, p, [del |-> TRUE, val |-> <<>>]),
     ops |-> Append(tx.ops, [op |-> "del", path |-> p, val |-> <<>>])]

stmDelAll(tx, st, prefix) ==
    LET hit == {p \in DOMAIN tx.w \cup DOMAIN st : HasPrefix(p, prefix)}
    IN  [w |-> [p \in DOMAIN tx.w \cup hit |->
                  IF p \in hit THEN [del |-> TRUE, val |-> <<>>] ELSE tx.w[p]],
         ops |-> Append(tx.ops, [op |-> "delall", path |-> prefix, val |-> <<>>])]

(***************************************************************************)
(* readWriteCollection                                                     *)
(***************************************************************************)
RWGet(tx, st, c, key) ==
    LET valStr == stmGet(tx, st, path(c, key))
    IN  IF valStr = <<>> THEN [err |-> "NotFound", val |-> NoRecord]
        ELSE LET u == UnmarshalText(valStr)
             IN  IF u.ok THEN [err |-> "nil", val |-> u.val]
                 ELSE [err |-> "Unmarshal", val |-> u.val]

indexPathFromVal(c, val, index, key) ==
    indexPath(c, index, FieldByName(val, index), key)

\* PutIndex with the back-reference written whether or not it is already there
PutIndexAlways(tx, st, c, key, val, index) ==
    LET ip == indexPathFromVal(c, val, index, key)
        orig == RWGet(tx, st, c, key)
        originalIndexPath == indexPathFromVal(c, orig.val, index, key)
        tx1 == IF orig.err = "nil" /\ originalIndexPath /= ip
               THEN stmDel(tx, originalIndexPath)
               ELSE tx
    IN  stmPut(tx1, ip, key)

\* one iteration of Put's loop over the indexes
PutIndex(tx, st, c, key, val, index) ==
    LET ip == indexPathFromVal(c, val, index, key)
        orig == RWGet(tx, st, c, key)
        originalIndexPath == indexPathFromVal(c, orig.val, index, key)
        tx1 == IF orig.err = "nil" /\ originalIndexPath /= ip
               THEN stmDel(tx, originalIndexPath)
               ELSE tx
    IN  IF stmGet(tx1, st, ip) = <<>> THEN stmPut(tx1, ip, key) ELSE tx1

RECURSIVE PutLoop(_, _, _, _, _, _)
PutLoop(tx, st, c, key, val, i) ==
    IF i > Len(c.indexes) THEN tx
    ELSE PutLoop(PutIndex(tx, st, c, key, val, c.indexes[i]), st, c, key, val, i + 1)

Put(tx, st, c, key, val) ==
    stmPut(PutLoop(tx, st, c, key, val, 1), path(c, key), Marshal(val))

Create(tx, st, c, key, val) ==
    IF stmGet(tx, st, path(c, key)) /= <<>>
    THEN [err |-> "Exists", tx |-> tx]
    ELSE [err |-> "nil", tx |-> Put(tx, st, c, key, val)]

\* one iteration of Delete's loop over the indexes
DeleteIndex(tx, st, c, key, index) ==
    LET g == RWGet(tx, st, c, key)
    IN  IF g.err = "nil" THEN stmDel(tx, indexPathFromVal(c, g.val, index, key))
        ELSE tx

RECURSIVE DeleteLoop(_, _, _, _, _)
DeleteLoop(tx, st, c, key, i) ==
    IF i > Len(c.indexes) THEN tx
    ELSE DeleteLoop(DeleteIndex(tx, st, c, key, c.indexes[i]), st, c, key, i + 1)

\* hasVal: the caller supplied a record to read into (vals[0])
Delete(tx, st, c, key, hasVal) ==
    LET fullKey == path(c, key)
    IN  IF stmGet(tx, st, fullKey) = <<>>
        THEN [err |-> "NotFound", tx |-> tx]
        ELSE [err |-> "nil",
              tx |-> stmDel(IF hasVal THEN DeleteLoop(tx, st, c, key, 1) ELSE tx, fullKey)]

DeleteAll(tx, st, c) == stmDelAll(tx, st, c.prefix)

(***************************************************************************)
(* readWriteIntCollection                                                  *)
(***************************************************************************)
Digits == <<"0", "1", "2", "3", "4", "5", "6", "7", "8", "9">>

RECURSIVE FormatNat(_)
FormatNat(n) ==
    IF n < 10 THEN <<Digits[n + 1]>>
    ELSE Append(FormatNat(n \div 10), Digits[(n % 10) + 1])

\* strconv.Itoa
Itoa(n) == IF n < 0 THEN <<"-">> \o FormatNat(0 - n) ELSE FormatNat(n)

DigitVal(ch) == (CHOOSE i \in 1..10 : Digits[i] = ch) - 1

IsDigit(ch) == \E i \in 1..10 : Digits[i] = ch

RECURSIVE ParseNat(_, _)
ParseNat(s, acc) ==
    IF s = <<>> THEN acc ELSE ParseNat(Tail(s), acc * 10 + DigitVal(Head(s)))

\* strconv.Atoi: an optional sign and at least one digit, nothing else
Atoi(s) ==
    LET signed == s /= <<>> /\ s[1] \in {"+", "-"}
        body == IF signed THEN Tail(s) ELSE s
    IN  IF body = <<>> \/ \E i \in 1..Len(body) : ~IsDigit(body[i])
        THEN [ok |-> FALSE, val |-> 0]
        ELSE [ok |-> TRUE,
              val |-> IF signed /\ s[1] = "-" THEN 0 - ParseNat(body, 0)
                      ELSE ParseNat(body, 0)]

IntCreate(tx, st, c, key, n) ==
    LET fullKey == path(c, key)
    IN  IF stmGet(tx, st, fullKey) /= <<>>
        THEN [err |-> "Exists", tx |-> tx]
        ELSE [err |-> "nil", tx |-> stmPut(tx, fullKey, Itoa(n))]

IntGet(tx, st, c, key) ==
    LET valStr == stmGet(tx, st, path(c, key))
    IN  IF valStr = <<>> THEN [err |-> "NotFound", val |-> 0]
        ELSE IF Atoi(valStr).ok THEN [err |-> "nil", val |-> Atoi(valStr).val]
        ELSE [err |-> "Syntax", val |-> 0]

\* Increment (delta 1) and Decrement (delta -1)
AddTo(tx, st, c, key, delta) ==
    LET fullKey == path(c, key)
        valStr == stmGet(tx, st, fullKey)
    IN  IF valStr = <<>> THEN [err |-> "NotFound", tx |-> tx]
        ELSE IF ~Atoi(valStr).ok THEN [err |-> "MalformedValue", tx |-> tx]
        ELSE [err |-> "nil", tx |-> stmPut(tx, fullKey, Itoa(Atoi(valStr).val + delta))]

Increment(tx, st, c, key) == AddTo(tx, st, c, key, 1)

\* Decrement left as a copy of Increment
DecrementUp(tx, st, c, key) == AddTo(tx, st, c, key, 1)

Decrement(tx, st, c, key) == AddTo(tx, st, c, key, 0 - 1)

\* Delete with the Del queued before the check
IntDeleteUnchecked(tx, st, c, key) ==
    LET fullKey == path(c, key)
    IN  [err |-> IF stmGet(tx, st, fullKey) = <<>> THEN "NotFound" ELSE "nil",
         tx |-> stmDel(tx, fullKey)]

IntDelete(tx, st, c, key) ==
    LET fullKey == path(c, key)
    IN  IF stmGet(tx, st, fullKey) = <<>>
        THEN [err |-> "NotFound", tx |-> tx]
        ELSE [err |-> "nil", tx |-> stmDel(tx, fullKey)]

(***************************************************************************)
(* readonlyCollection: reads of the committed store                        *)
(***************************************************************************)
ROGet(st, c, key) ==
    LET p == path(c, key)
    IN  IF p \notin DOMAIN st THEN [err |-> "NotFound", val |-> NoRecord]
        ELSE LET u == UnmarshalText(st[p].val)
             IN  IF u.ok THEN [err |-> "nil", val |-> u.val]
                 ELSE [err |-> "Unmarshal", val |-> u.val]

\* the keys of resp.Kvs of a range read with etcd.WithPrefix()
RangeKeys(st, prefix) == {p \in DOMAIN st : HasPrefix(p, prefix)}

\* resp.Kvs of GetByIndex; the store sorts them by descending ModRevision
GetByIndex(st, c, index, val) == RangeKeys(st, indexDir(c, index, val))

\* resp.Kvs of List
List(st, c) == RangeKeys(st, c.prefix)

\* iterator.Next over List's response: the pairs it returns before it ends or fails
ListYields(st, c) ==
    {[key |-> Base(p), val |-> UnmarshalText(st[p].val).val] :
        p \in {q \in List(st, c) :
                 \A q2 \in List(st, c) :
                    st[q2].rev >= st[q].rev => UnmarshalText(st[q2].val).ok}}

\* indirectIterator.Next returns ok for the entry e of the response kvs: the Get
\* of e's key succeeds, and so did the Get of every entry sorted before e. Entries
\* of one revision come in the store's own order: "before" is then either way.
NextOk(st, c, kvs, e, tiesBefore) ==
    /\ ROGet(st, c, Base(e)).err = "nil"
    /\ \A e2 \in kvs \ {e} :
         (st[e2].rev > st[e].rev \/ (tiesBefore /\ st[e2].rev = st[e].rev))
            => ROGet(st, c, Base(e2)).err = "nil"

\* the sequence of GetByIndex(index, val) returns key in some / in every order
\* the store may sort the entries of one revision in
MayYield(st, c, index, val, key) ==
    \E e \in GetByIndex(st, c, index, val) :
        Base(e) = key /\ NextOk(st, c, GetByIndex(st, c, index, val), e, FALSE)

MustYield(st, c, index, val, key) ==
    \E e \in GetByIndex(st, c, index, val) :
        Base(e) = key /\ NextOk(st, c, GetByIndex(st, c, index, val), e, TRUE)

\* some Next call of the sequence of GetByIndex(index, val) returns an error
MayFail(st, c, index, val) ==
    \E e \in GetByIndex(st, c, index, val) : ROGet(st, c, Base(e)).err /= "nil"

(***************************************************************************)
(* The modelled collection, its keys and records                           *)
(***************************************************************************)
Col == NewCollection(<<"p">>, <<IdxA, IdxB>>)

Keys == {<<"k">>, <<"j">>}

ValsA == {<<>>, <<"a">>, <<"a", "b">>}
ValsB == {<<>>, <<"b">>}

\* the record with every field at its default, and two records that differ in
\* both indexed fields, the A value of one a string prefix of the other's
Records ==
    {NoRecord, [A |-> <<"a">>, B |-> <<"b">>], [A |-> <<"a", "b">>, B |-> <<>>]}

IndexVals(index) == IF index = IdxA THEN ValsA ELSE ValsB

Indexes == {Col.indexes[i] : i \in 1..Len(Col.indexes)}

NoCall == [op |-> "none", key |-> <<>>, val |-> NoRecord, hasVal |-> FALSE,
           err |-> "nil", ops |-> <<>>, committed |-> FALSE]

Call(op, key, val, hasVal, err, ops) ==
    [op |-> op, key |-> key, val |-> val, hasVal |-> hasVal,
     err |-> err, ops |-> ops, committed |-> FALSE]

Tx == [w |-> wset, ops |-> <<>>]

NoSub == [index |-> <<>>, val |-> <<>>]

NoEvent == [type |-> "none", key |-> <<>>, val |-> <<>>]

\* the forwarding task waiting at the receive from the raw event channel
Receiving == [pc |-> "recv", ev |-> NoEvent, directEv |-> NoEvent]

\* close(eventCh), as the subscriber sees it
Closed == [type |-> "closed", key |-> <<>>, val |-> <<>>]

\* the error event of the deferred function
ErrorEvent == [type |-> "error", key |-> <<>>, val |-> <<>>]

\* a raw event the forwarding task handled and how its handling went on
Seen(ev, outcome, val) == [ev |-> ev, outcome |-> outcome, val |-> val]

NoIter == [pc |-> "none", kvs |-> <<>>, index |-> 0, out |-> <<>>]

NoPaths == [pc |-> "none", keys |-> <<>>, paths |-> <<>>]

\* no subscription has a context, a subscriber or a raw channel to close
FwdIdle ==
    /\ ctx = "live"
    /\ upClosed = FALSE
    /\ recving = TRUE
    /\ seen = <<>>

MoreIdle ==
    /\ cols = <<>>
    /\ wrote = {}
    /\ it = NoIter
    /\ pk = NoPaths
    /\ txs = <<>>

(***************************************************************************)
(* Transactions on the record collection                                   *)
(***************************************************************************)
Init ==
    /\ store = EmptyMap
    /\ rev = 0
    /\ wset = EmptyMap
    /\ txCalls = 0
    /\ calls = 0
    /\ last = NoCall
    /\ prev = NoCall
    /\ events = {}
    /\ counts = EmptyMap
    /\ sub = NoSub
    /\ wpc = "idle"
    /\ others = 0
    /\ indirectCh = <<>>
    /\ tr = Receiving
    /\ eventCh = <<>>
    /\ FwdIdle
    /\ MoreIdle

CanCall == calls < MaxCalls

DoPut(k, r) ==
    /\ CanCall
    /\ LET tx == Put(Tx, store, Col, k, r)
       IN  /\ wset' = tx.w
           /\ last' = Call("Put", k, r, FALSE, "nil", tx.ops)
    /\ txCalls' = txCalls + 1
    /\ calls' = calls + 1
    /\ prev' = last
    /\ UNCHANGED <<moreVars, store, rev, events, counts, watchVars, fwdVars>>

DoCreate(k, r) ==
    /\ CanCall
    /\ LET res == Create(Tx, store, Col, k, r)
       IN  /\ wset' = res.tx.w
           /\ last' = Call("Create", k, r, FALSE, res.err, res.tx.ops)
    /\ txCalls' = txCalls + 1
    /\ calls' = calls + 1
    /\ prev' = last
    /\ UNCHANGED <<moreVars, store, rev, events, counts, watchVars, fwdVars>>

DoDelete(k, hasVal) ==
    /\ CanCall
    /\ LET res == Delete(Tx, store, Col, k, hasVal)
       IN  /\ wset' = res.tx.w
           /\ last' = Call("Delete", k, NoRecord, hasVal, res.err, res.tx.ops)
    /\ txCalls' = txCalls + 1
    /\ calls' = calls + 1
    /\ prev' = last
    /\ UNCHANGED <<moreVars, store, rev, events, counts, watchVars, fwdVars>>

DoDeleteAll ==
    /\ CanCall
    /\ LET tx == DeleteAll(Tx, store, Col)
       IN  /\ wset' = tx.w
           /\ last' = Call("DeleteAll", <<>>, NoRecord, FALSE, "nil", tx.ops)
    /\ txCalls' = txCalls + 1
    /\ calls' = calls + 1
    /\ prev' = last
    /\ UNCHANGED <<moreVars, store, rev, events, counts, watchVars, fwdVars>>

\* the store after the write set w is applied at revision r
Apply(st, w, r) ==
    LET keep == (DOMAIN st \ DOMAIN w) \cup {p \in DOMAIN w : ~w[p].del}
    IN  [p \in keep |-> IF p \in DOMAIN w THEN [val |-> w[p].val, rev |-> r] ELSE st[p]]

\* the raw watch events of a commit: a put per written key, a delete per
\* deleted key that existed
CommitEvents(st, w) ==
    {[type |-> "put", key |-> p, val |-> w[p].val] : p \in {q \in DOMAIN w : ~w[q].del}}
    \cup
    {[type |-> "delete", key |-> p, val |-> <<>>] :
        p \in {q \in DOMAIN w : w[q].del /\ q \in DOMAIN st}}

Commit ==
    /\ txCalls > 0
    /\ store' = Apply(store, wset, rev + 1)
    /\ events' = CommitEvents(store, wset)
    /\ rev' = rev + 1
    /\ wset' = EmptyMap
    /\ txCalls' = 0
    /\ last' = [last EXCEPT !.committed = TRUE]
    /\ UNCHANGED <<moreVars, calls, prev, counts, watchVars, fwdVars>>

Next ==
    \/ \E k \in Keys, r \in Records : DoPut(k, r)
    \/ \E k \in Keys, r \in Records : DoCreate(k, r)
    \/ \E k \in Keys, hasVal \in BOOLEAN : DoDelete(k, hasVal)
    \/ DoDeleteAll
    \/ Commit

Spec == Init /\ [][Next]_vars

(***************************************************************************)
(* Transactions on the integer collection (specification SpecInt)          *)
(***************************************************************************)
IntCol == NewCollection(<<"c">>, <<>>)

IntVals == {0 - 1, 5}

CanCallInt == calls < MaxIntCalls

IntCall(op, key, res) ==
    /\ wset' = res.tx.w
    /\ last' = Call(op, key, NoRecord, FALSE, res.err, res.tx.ops)
    /\ txCalls' = txCalls + 1
    /\ calls' = calls + 1
    /\ UNCHANGED <<moreVars, store, rev, events, prev, watchVars, fwdVars>>

DoIntCreate(k, n) ==
    /\ CanCallInt
    /\ LET res == IntCreate(Tx, store, IntCol, k, n)
       IN  /\ IntCall("IntCreate", k, res)
           /\ counts' = IF res.err = "nil"
                        THEN Upd(counts, k, [n |-> n, i |-> 0, d |-> 0])
                        ELSE counts

DoIncrement(k) ==
    /\ CanCallInt
    /\ LET res == Increment(Tx, store, IntCol, k)
       IN  /\ IntCall("Increment", k, res)
           /\ counts' = IF res.err = "nil" /\ k \in DOMAIN counts
                        THEN [counts EXCEPT ![k].i = @ + 1]
                        ELSE counts

DoDecrement(k) ==
    /\ CanCallInt
    /\ LET res == Decrement(Tx, store, IntCol, k)
       IN  /\ IntCall("Decrement", k, res)
           /\ counts' = IF res.err = "nil" /\ k \in DOMAIN counts
                        THEN [counts EXCEPT ![k].d = @ + 1]
                        ELSE counts

DoIntDelete(k) ==
    /\ CanCallInt
    /\ LET res == IntDelete(Tx, store, IntCol, k)
       IN  /\ IntCall("IntDelete", k, res)
           /\ counts' = IF res.err = "nil"
                        THEN [x \in DOMAIN counts \ {k} |-> counts[x]]
                        ELSE counts

NextInt ==
    \/ \E k \in Keys, n \in IntVals : DoIntCreate(k, n)
    \/ \E k \in Keys : DoIncrement(k)
    \/ \E k \in Keys : DoDecrement(k)
    \/ \E k \in Keys : DoIntDelete(k)
    \/ Commit

SpecInt == Init /\ [][NextInt]_vars

(***************************************************************************)
(* The ReadWrite and the ReadWriteInt view of one collection, used in the  *)
(* same transactions (specification SpecMixed)                             *)
(***************************************************************************)
CanCallMixed == calls < MaxMixedCalls

\* a call that only reads through the transaction
ReadCall(op, key, err) ==
    /\ last' = Call(op, key, NoRecord, FALSE, err, <<>>)
    /\ txCalls' = txCalls + 1
    /\ calls' = calls + 1
    /\ prev' = last
    /\ UNCHANGED <<moreVars, store, rev, wset, events, counts, watchVars, fwdVars>>

\* a call on the ReadWriteInt view of Col
ColIntCall(op, key, res) ==
    /\ IntCall(op, key, res)
    /\ counts' = counts

DoGet(k) ==
    /\ CanCallMixed
    /\ ReadCall("Get", k, RWGet(Tx, store, Col, k).err)

DoIntGet(k) ==
    /\ CanCallMixed
    /\ ReadCall("IntGet", k, IntGet(Tx, store, Col, k).err)

ColIntCreate(k, n) ==
    /\ CanCallMixed
    /\ ColIntCall("IntCreate", k, IntCreate(Tx, store, Col, k, n))

ColIncrement(k) ==
    /\ CanCallMixed
    /\ ColIntCall("Increment", k, Increment(Tx, store, Col, k))

ColDecrement(k) ==
    /\ CanCallMixed
    /\ ColIntCall("Decrement", k, Decrement(Tx, store, Col, k))

ColIntDelete(k) ==
    /\ CanCallMixed
    /\ ColIntCall("IntDelete", k, IntDelete(Tx, store, Col, k))

\* the calls on the ReadWrite view of Col
ColPut(k, r) == CanCallMixed /\ DoPut(k, r)

ColCreate(k, r) == CanCallMixed /\ DoCreate(k, r)

ColDelete(k, hasVal) == CanCallMixed /\ DoDelete(k, hasVal)

ColDeleteAll == CanCallMixed /\ DoDeleteAll

NextMixed ==
    \/ \E k \in Keys, r \in Records : ColPut(k, r)
    \/ \E k \in Keys, r \in Records : ColCreate(k, r)
    \/ \E k \in Keys, hasVal \in BOOLEAN : ColDelete(k, hasVal)
    \/ ColDeleteAll
    \/ \E k \in Keys : DoGet(k)
    \/ \E k \in Keys, n \in IntVals : ColIntCreate(k, n)
    \/ \E k \in Keys : DoIntGet(k)
    \/ \E k \in Keys : ColIncrement(k)
    \/ \E k \in Keys : ColDecrement(k)
    \/ \E k \in Keys : ColIntDelete(k)
    \/ Commit

SpecMixed == Init /\ [][NextMixed]_vars

(***************************************************************************)
(* Two collections whose prefixes share a stem (specification SpecTwo)     *)
(***************************************************************************)
Foo == <<"f", "o", "o">>

FooBar == <<"f", "o", "o", "b", "a", "r">>

\* a prefix as a caller of NewCollection may write it
PrefixForms(p) == {p, p \o <<Slash>>}

\* no transaction has run, no subscription is open
Quiet ==
    /\ store = EmptyMap
    /\ rev = 0
    /\ wset = EmptyMap
    /\ txCalls = 0
    /\ calls = 0
    /\ last = NoCall
    /\ prev = NoCall
    /\ events = {}
    /\ counts = EmptyMap
    /\ sub = NoSub
    /\ wpc = "idle"
    /\ others = 0
    /\ indirectCh = <<>>
    /\ tr = Receiving
    /\ eventCh = <<>>
    /\ FwdIdle

InitTwo ==
    /\ Quiet
    /\ \E a \in PrefixForms(Foo), b \in PrefixForms(FooBar) :
          cols = <<NewCollection(a, <<IdxA, IdxB>>), NewCollection(b, <<IdxA, IdxB>>)>>
    /\ wrote = {}
    /\ it = NoIter
    /\ pk = NoPaths
    /\ txs = <<>>

\* the paths the ops of a call put
PutPaths(ops) == {ops[n].path : n \in {x \in 1..Len(ops) : ops[x].op = "put"}}

\* a call on the ReadWrite view of cols[i] that left tx and returned err
TwoCall(i, op, k, r, hasVal, err, tx) ==
    /\ calls < MaxTwoCalls
    /\ wset' = tx.w
    /\ last' = Call(op, k, r, hasVal, err, tx.ops)
    /\ wrote' = wrote \cup {<<i, p>> : p \in PutPaths(tx.ops)}
    /\ txCalls' = txCalls + 1
    /\ calls' = calls + 1
    /\ prev' = last
    /\ UNCHANGED <<store, rev, events, counts, watchVars, fwdVars, cols, it, pk, txs>>

TwoPut(i, k, r) ==
    TwoCall(i, "Put", k, r, FALSE, "nil", Put(Tx, store, cols[i], k, r))

TwoCreate(i, k, r) ==
    LET res == Create(Tx, store, cols[i], k, r)
    IN  TwoCall(i, "Create", k, r, FALSE, res.err, res.tx)

TwoDelete(i, k, hasVal) ==
    LET res == Delete(Tx, store, cols[i], k, hasVal)
    IN  TwoCall(i, "Delete", k, NoRecord, hasVal, res.err, res.tx)

NextTwo ==
    \/ \E i \in 1..2, k \in Keys, r \in Records : TwoPut(i, k, r)
    \/ \E i \in 1..2, k \in Keys, r \in Records : TwoCreate(i, k, r)
    \/ \E i \in 1..2, k \in Keys, hasVal \in BOOLEAN : TwoDelete(i, k, hasVal)
    \/ Commit

SpecTwo == InitTwo /\ [][NextTwo]_vars

(***************************************************************************)
(* WatchByIndex and a racing writer (specification SpecWatch)              *)
(***************************************************************************)
\* the sequences that enumerate the set S
RECURSIVE Orders(_)
Orders(S) ==
    IF S = {} THEN {<<>>}
    ELSE UNION {{<<x>> \o t : t \in Orders(S \ {x})} : x \in S}

\* the raw events of a commit that a watch of prefix delivers
WatchEvents(st, w, prefix) == {e \in CommitEvents(st, w) : HasPrefix(e.key, prefix)}

\* a transaction that ran to its commit: the store changes, the watch of the
\* subscription's index directory queues the commit's events
CommitWatched(w) ==
    /\ store' = Apply(store, w, rev + 1)
    /\ rev' = rev + 1
    /\ events' = CommitEvents(store, w)
    /\ \E evs \in Orders(WatchEvents(store, w, indexDir(Col, sub.index, sub.val))) :
          indirectCh' = IF upClosed THEN indirectCh ELSE indirectCh \o evs

InitWatch ==
    /\ store = EmptyMap
    /\ rev = 0
    /\ wset = EmptyMap
    /\ txCalls = 0
    /\ calls = 0
    /\ last = NoCall
    /\ prev = NoCall
    /\ events = {}
    /\ counts = EmptyMap
    /\ \E index \in Indexes :
          \E v \in IndexVals(index) : sub = [index |-> index, val |-> v]
    /\ wpc = "create"
    /\ others = 0
    /\ indirectCh = <<>>
    /\ tr = Receiving
    /\ eventCh = <<>>
    /\ FwdIdle
    /\ MoreIdle

\* the writer creates a record whose indexed field has the watched value
WriterCreate(k, r) ==
    /\ wpc = "create"
    /\ FieldByName(r, sub.index) = sub.val
    /\ LET res == Create([w |-> EmptyMap, ops |-> <<>>], store, Col, k, r)
       IN  /\ CommitWatched(res.tx.w)
           /\ last' = [Call("Create", k, r, FALSE, res.err, res.tx.ops)
                          EXCEPT !.committed = TRUE]
    /\ prev' = last
    /\ wpc' = "delete"
    /\ UNCHANGED <<moreVars, fwdVars, wset, txCalls, calls, counts, sub, others, tr,
                   eventCh>>

\* and then deletes it, supplying a record to read into
WriterDelete ==
    /\ wpc = "delete"
    /\ LET res == Delete([w |-> EmptyMap, ops |-> <<>>], store, Col, last.key, TRUE)
       IN  /\ CommitWatched(res.tx.w)
           /\ last' = [Call("Delete", last.key, NoRecord, TRUE, res.err, res.tx.ops)
                          EXCEPT !.committed = TRUE]
    /\ prev' = last
    /\ wpc' = "done"
    /\ UNCHANGED <<moreVars, fwdVars, wset, txCalls, calls, counts, sub, others, tr,
                   eventCh>>

\* the writer's key, once chosen
WriterKey == IF wpc = "delete" THEN last.key ELSE prev.key

\* the writer's record
WriterVal == IF wpc = "delete" THEN last.val ELSE prev.val

\* another writer puts a record under another key
OtherPut(k, r) ==
    /\ others < MaxOthers
    /\ wpc /= "create"
    /\ k /= WriterKey
    /\ CommitWatched(Put([w |-> EmptyMap, ops |-> <<>>], store, Col, k, r).w)
    /\ others' = others + 1
    /\ UNCHANGED <<moreVars, fwdVars, wset, txCalls, calls, counts, last, prev, sub, wpc,
                   tr, eventCh>>

\* Receive with the delete forwarded under the whole key of the index entry
ReceiveFullKey ==
    /\ tr.pc = "recv"
    /\ indirectCh /= <<>>
    /\ LET ev == Head(indirectCh)
       IN  tr' = IF ev.type = "error"
                 THEN [pc |-> "fail", ev |-> ev, directEv |-> NoEvent]
                 ELSE IF ev.type = "put"
                 THEN [pc |-> "deref", ev |-> ev, directEv |-> NoEvent]
                 ELSE [pc |-> "send", ev |-> ev,
                       directEv |-> [type |-> ev.type, key |-> ev.key, val |-> <<>>]]
    /\ indirectCh' = Tail(indirectCh)
    /\ seen' = IF Head(indirectCh).type = "put" THEN seen
               ELSE Append(seen, Seen(Head(indirectCh), Head(indirectCh).type, <<>>))
    /\ UNCHANGED <<moreVars, store, rev, wset, txCalls, calls, last, prev, events, counts,
                   sub, wpc, others, eventCh, ctx, upClosed, recving>>

\* ev, ok := <-indirectEventCh, and the switch on ev.Type up to the dereference
Receive ==
    /\ tr.pc = "recv"
    /\ indirectCh /= <<>>
    /\ LET ev == Head(indirectCh)
       IN  tr' = IF ev.type = "error"
                 THEN [pc |-> "fail", ev |-> ev, directEv |-> NoEvent]
                 ELSE IF ev.type = "put"
                 THEN [pc |-> "deref", ev |-> ev, directEv |-> NoEvent]
                 ELSE [pc |-> "send", ev |-> ev,
                       directEv |-> [type |-> ev.type, key |-> Base(ev.key), val |-> <<>>]]
    /\ indirectCh' = Tail(indirectCh)
    /\ seen' = IF Head(indirectCh).type = "put" THEN seen
               ELSE Append(seen, Seen(Head(indirectCh), Head(indirectCh).type, <<>>))
    /\ UNCHANGED <<moreVars, store, rev, wset, txCalls, calls, last, prev, events, counts,
                   sub, wpc, others, eventCh, ctx, upClosed, recving>>

\* Dereference with the put forwarded, without a value, when the key is gone
DereferenceNoSkip ==
    /\ tr.pc = "deref"
    /\ LET p == path(Col, Base(tr.ev.key))
       IN  /\ tr' = [pc |-> "send", ev |-> tr.ev,
                  directEv |-> [type |-> tr.ev.type, key |-> Base(tr.ev.key),
                                val |-> IF p \in DOMAIN store THEN store[p].val ELSE <<>>]]
           /\ seen' = Append(seen, IF p \in DOMAIN store
                                   THEN Seen(tr.ev, "found", store[p].val)
                                   ELSE Seen(tr.ev, "absent", <<>>))
    /\ UNCHANGED <<moreVars, store, rev, wset, txCalls, calls, last, prev, events, counts,
                   sub, wpc, others, indirectCh, eventCh, ctx, upClosed, recving>>

\* c.etcdClient.Get of the primary key the put event refers to
Dereference ==
    /\ tr.pc = "deref"
    /\ LET p == path(Col, Base(tr.ev.key))
       IN  /\ tr' = IF p \notin DOMAIN store
                    THEN Receiving
                    ELSE [pc |-> "send", ev |-> tr.ev,
                          directEv |-> [type |-> tr.ev.type, key |-> Base(tr.ev.key),
                                        val |-> store[p].val]]
           /\ seen' = Append(seen, IF p \in DOMAIN store
                                   THEN Seen(tr.ev, "found", store[p].val)
                                   ELSE Seen(tr.ev, "absent", <<>>))
    /\ UNCHANGED <<moreVars, store, rev, wset, txCalls, calls, last, prev, events, counts,
                   sub, wpc, others, indirectCh, eventCh, ctx, upClosed, recving>>

\* eventCh <- directEv on the unbuffered channel: the send completes when the
\* subscriber receives
Send ==
    /\ tr.pc = "send"
    /\ recving
    /\ eventCh' = Append(eventCh, tr.directEv)
    /\ tr' = Receiving
    /\ UNCHANGED <<moreVars, fwdVars, store, rev, wset, txCalls, calls, last, prev, events,
                   counts, sub, wpc, others, indirectCh>>

NextWatch ==
    \/ \E k \in Keys, r \in Records : WriterCreate(k, r)
    \/ WriterDelete
    \/ \E k \in Keys, r \in Records : OtherPut(k, r)
    \/ Receive
    \/ Dereference
    \/ Send

SpecWatch == InitWatch /\ [][NextWatch]_vars

(***************************************************************************)
(* WatchByIndex with failures, closure and cancellation (SpecFwd), and     *)
(* the same under fair scheduling of the task and the watch (SpecFwdFair)  *)
(***************************************************************************)
fwdFrame == <<moreVars, store, rev, wset, txCalls, calls, last, prev, events, counts,
              sub, wpc, others>>

\* the watch of the index directory fails: it delivers an error event and
\* closes the raw event channel
UpstreamError ==
    /\ ~upClosed
    /\ indirectCh' = Append(indirectCh, ErrorEvent)
    /\ upClosed' = TRUE
    /\ UNCHANGED <<fwdFrame, tr, eventCh, ctx, recving, seen>>

\* the watch of the index directory ends on the cancelled context
UpstreamClose ==
    /\ ~upClosed
    /\ ctx = "cancelled"
    /\ upClosed' = TRUE
    /\ UNCHANGED <<fwdFrame, indirectCh, tr, eventCh, ctx, recving, seen>>

\* the caller cancels the context of the read-only view
Cancel ==
    /\ ctx = "live"
    /\ ctx' = "cancelled"
    /\ UNCHANGED <<fwdFrame, indirectCh, tr, eventCh, upClosed, recving, seen>>

\* the caller, having cancelled, stops receiving from the channel WatchByIndex
\* returned
StopReceiving ==
    /\ ctx = "cancelled"
    /\ recving
    /\ recving' = FALSE
    /\ UNCHANGED <<fwdFrame, indirectCh, tr, eventCh, ctx, upClosed, seen>>

\* ev, ok := <-indirectEventCh with !ok: close(eventCh); return nil
ReceiveClosed ==
    /\ tr.pc = "recv"
    /\ indirectCh = <<>>
    /\ upClosed
    /\ eventCh' = Append(eventCh, Closed)
    /\ tr' = [pc |-> "done", ev |-> NoEvent, directEv |-> NoEvent]
    /\ UNCHANGED <<fwdFrame, indirectCh, fwdVars>>

\* c.etcdClient.Get fails: return err
DereferenceFail ==
    /\ tr.pc = "deref"
    /\ tr' = [pc |-> "fail", ev |-> tr.ev, directEv |-> NoEvent]
    /\ seen' = Append(seen, Seen(tr.ev, "fail", <<>>))
    /\ UNCHANGED <<fwdFrame, indirectCh, eventCh, ctx, upClosed, recving>>

\* the deferred function skipping its send of the error event
DeferredNoError ==
    /\ tr.pc = "fail"
    /\ recving
    /\ tr' = [tr EXCEPT !.pc = "close"]
    /\ UNCHANGED <<fwdFrame, indirectCh, eventCh, fwdVars>>

\* the deferred function with retErr != nil: eventCh <- the error event, on
\* the unbuffered channel
DeferredError ==
    /\ tr.pc = "fail"
    /\ recving
    /\ eventCh' = Append(eventCh, ErrorEvent)
    /\ tr' = [tr EXCEPT !.pc = "close"]
    /\ UNCHANGED <<fwdFrame, indirectCh, fwdVars>>

\* the deferred function's close(eventCh)
DeferredClose ==
    /\ tr.pc = "close"
    /\ eventCh' = Append(eventCh, Closed)
    /\ tr' = [tr EXCEPT !.pc = "done"]
    /\ UNCHANGED <<fwdFrame, indirectCh, fwdVars>>

\* a step of the goroutine WatchByIndex starts
TaskStep ==
    \/ Receive
    \/ ReceiveClosed
    \/ Dereference
    \/ DereferenceFail
    \/ Send
    \/ DeferredError
    \/ DeferredClose

NextFwd ==
    \/ \E k \in Keys, r \in Records : WriterCreate(k, r)
    \/ WriterDelete
    \/ \E k \in Keys, r \in Records : OtherPut(k, r)
    \/ UpstreamError
    \/ UpstreamClose
    \/ Cancel
    \/ StopReceiving
    \/ TaskStep

SpecFwd == InitWatch /\ [][NextFwd]_vars

\* the steps the goroutine is sure to take when it can: every step but the
\* successful Get, which is possible exactly when the failing Get is and
\* which also ends the dereference
TaskRuns ==
    \/ Receive
    \/ ReceiveClosed
    \/ DereferenceFail
    \/ Send
    \/ DeferredError
    \/ DeferredClose

\* the goroutine runs when it can; the watch closes its channel once the
\* context is cancelled
SpecFwdFair == SpecFwd /\ WF_vars(TaskRuns) /\ WF_vars(UpstreamClose)

(***************************************************************************)
(* Primary paths of arbitrary keys (specification SpecPath)                *)
(***************************************************************************)
KeyChars == {"a", Slash, "."}

\* the key strings of up to n characters
RECURSIVE KeyStrings(_)
KeyStrings(n) ==
    IF n = 0 THEN {<<>>}
    ELSE KeyStrings(n - 1) \cup
         {Append(k, ch) : k \in {x \in KeyStrings(n - 1) : Len(x) = n - 1},
                          ch \in KeyChars}

InitPath ==
    /\ Quiet
    /\ cols = <<>>
    /\ wrote = {}
    /\ it = NoIter
    /\ \E k1 \in KeyStrings(MaxKeyLen), k2 \in KeyStrings(MaxKeyLen) :
          pk = [pc |-> "keys", keys |-> <<k1, k2>>, paths |-> <<>>]
    /\ txs = <<>>

\* c.path(key) for each of the two keys
DerivePaths ==
    /\ pk.pc = "keys"
    /\ pk' = [pk EXCEPT !.pc = "done",
                        !.paths = <<path(Col, pk.keys[1]), path(Col, pk.keys[2])>>]
    /\ UNCHANGED <<store, rev, wset, txCalls, calls, last, prev, events, counts,
                   watchVars, fwdVars, cols, wrote, it, txs>>

NextPath == DerivePaths

SpecPath == InitPath /\ [][NextPath]_vars

(***************************************************************************)
(* Concurrent transactions on counters, committed by a store that checks   *)
(* what they read (specification SpecConc)                                 *)
(***************************************************************************)
\* a transaction that has not read or written anything
IdleTx == [pc |-> "idle", rset |-> EmptyMap, w |-> EmptyMap, did |-> <<>>,
           retried |-> FALSE]

\* the revision a read of p observes: that of p's last write, 0 when absent
ModRev(st, p) == IF p \in DOMAIN st THEN st[p].rev ELSE 0

\* Increment and Decrement reading the value past the transaction
ReadSetNone(c, key) == {}

\* the paths Increment and Decrement read through the transaction
ReadSetOf(c, key) == {path(c, key)}

\* the read set after a call on key: a path is read from the store the first
\* time, unless the transaction wrote it
ReadSetAfter(t, key) ==
    LET old == txs[t].rset
        new == {p \in ReadSetOf(IntCol, key) :
                    p \notin DOMAIN old /\ p \notin DOMAIN txs[t].w}
    IN  [p \in DOMAIN old \cup new |-> IF p \in DOMAIN old THEN old[p]
                                         ELSE ModRev(store, p)]

\* transaction t makes a call that returned res; a failed call ends it
ConcCall(t, op, key, res) ==
    /\ txs[t].pc \in {"idle", "ran"}
    /\ Len(txs[t].did) < MaxTxCalls
    /\ txs' = [txs EXCEPT ![t] =
                 IF res.err = "nil"
                 THEN [pc |-> "ran", rset |-> ReadSetAfter(t, key), w |-> res.tx.w,
                       did |-> Append(txs[t].did, [op |-> op, key |-> key]),
                       retried |-> txs[t].retried]
                 ELSE [IdleTx EXCEPT !.pc = "failed", !.retried = txs[t].retried]]
    /\ UNCHANGED <<store, rev, wset, txCalls, calls, last, prev, events, counts,
                   watchVars, fwdVars, cols, wrote, it, pk>>

ConcIncrement(t, key) ==
    ConcCall(t, "Increment", key,
             Increment([w |-> txs[t].w, ops |-> <<>>], store, IntCol, key))

ConcDecrement(t, key) ==
    ConcCall(t, "Decrement", key,
             Decrement([w |-> txs[t].w, ops |-> <<>>], store, IntCol, key))

\* what transaction t read is as it read it
Unchanged(t) == \A p \in DOMAIN txs[t].rset : ModRev(store, p) = txs[t].rset[p]

\* how many calls of op on key the transaction made
Did(t, op, key) ==
    Cardinality({x \in 1..Len(txs[t].did) : txs[t].did[x] = [op |-> op, key |-> key]})

\* the store commits transaction t
ConcCommit(t) ==
    /\ txs[t].pc = "ran"
    /\ Unchanged(t)
    /\ store' = Apply(store, txs[t].w, rev + 1)
    /\ rev' = rev + 1
    /\ events' = CommitEvents(store, txs[t].w)
    /\ counts' = [k \in DOMAIN counts |->
                    [counts[k] EXCEPT !.i = @ + Did(t, "Increment", k),
                                      !.d = @ + Did(t, "Decrement", k)]]
    /\ txs' = [txs EXCEPT ![t] = [IdleTx EXCEPT !.pc = "committed",
                                                !.retried = txs[t].retried]]
    /\ UNCHANGED <<wset, txCalls, calls, last, prev, watchVars, fwdVars, cols, wrote,
                   it, pk>>

\* the store refuses transaction t, which starts over
ConcAbort(t) ==
    /\ txs[t].pc = "ran"
    /\ ~Unchanged(t)
    /\ txs' = [txs EXCEPT ![t] = [IdleTx EXCEPT !.retried = TRUE]]
    /\ UNCHANGED <<store, rev, wset, txCalls, calls, last, prev, events, counts,
                   watchVars, fwdVars, cols, wrote, it, pk>>

\* a transaction of one call creates the counter and commits
ConcCreate(key, n) ==
    /\ key \notin DOMAIN counts
    /\ LET res == IntCreate([w |-> EmptyMap, ops |-> <<>>], store, IntCol, key, n)
       IN  /\ res.err = "nil"
           /\ store' = Apply(store, res.tx.w, rev + 1)
           /\ events' = CommitEvents(store, res.tx.w)
    /\ rev' = rev + 1
    /\ counts' = Upd(counts, key, [n |-> n, i |-> 0, d |-> 0])
    /\ UNCHANGED <<moreVars, wset, txCalls, calls, last, prev, watchVars, fwdVars>>

InitConc ==
    /\ Quiet
    /\ cols = <<>>
    /\ wrote = {}
    /\ it = NoIter
    /\ pk = NoPaths
    /\ txs = [t \in 1..MaxTxs |-> IdleTx]

\* the counter the transactions contend for
CounterKeys == {<<"k">>}

NextConc ==
    \/ \E key \in CounterKeys, n \in IntVals : ConcCreate(key, n)
    \/ \E t \in DOMAIN txs, key \in CounterKeys : ConcIncrement(t, key)
    \/ \E t \in DOMAIN txs, key \in CounterKeys : ConcDecrement(t, key)
    \/ \E t \in DOMAIN txs : ConcCommit(t)
    \/ \E t \in DOMAIN txs : ConcAbort(t)

SpecConc == InitConc /\ [][NextConc]_vars

(***************************************************************************)
(* GetByIndex's iterator stepped while writers commit (SpecIter)           *)
(***************************************************************************)
\* resp.Kvs is sorted by descending ModRevision
SortedDesc(st, kvs) ==
    \A a \in 1..Len(kvs), b \in 1..Len(kvs) : a < b => st[kvs[a]].rev >= st[kvs[b]].rev

\* a transaction of one call that commits
IterWrite(tx) ==
    /\ calls < MaxIterWrites
    /\ store' = Apply(store, tx.w, rev + 1)
    /\ rev' = rev + 1
    /\ events' = CommitEvents(store, tx.w)
    /\ calls' = calls + 1
    /\ UNCHANGED <<moreVars, wset, txCalls, last, prev, counts, watchVars, fwdVars>>

IterPut(k, r) == IterWrite(Put([w |-> EmptyMap, ops |-> <<>>], store, Col, k, r))

IterDelete(k, hasVal) ==
    LET res == Delete([w |-> EmptyMap, ops |-> <<>>], store, Col, k, hasVal)
    IN  res.err = "nil" /\ IterWrite(res.tx)

\* GetByIndex(index, val): the range read and the iterator over its response
IterOpen(index, val) ==
    /\ it.pc = "none"
    /\ \E kvs \in Orders(GetByIndex(store, Col, index, val)) :
          /\ SortedDesc(store, kvs)
          /\ it' = [pc |-> "open", kvs |-> kvs, index |-> 0, out |-> <<>>]
    /\ UNCHANGED <<store, rev, wset, txCalls, calls, last, prev, events, counts,
                   watchVars, fwdVars, cols, wrote, pk, txs>>

\* what a Next call returned: ok, retErr, *key, *val; entry is the kv it was
\* at, absent tells whether the primary record of *key was missing then
NextResult(ok, err, key, val, entry, absent) ==
    [ok |-> ok, err |-> err, key |-> key, val |-> val, entry |-> entry,
     absent |-> absent]

\* indirectIterator.Next
IterNext ==
    /\ it.pc = "open"
    /\ IF it.index < Len(it.kvs)
       THEN LET kv == it.kvs[it.index + 1]
                key == Base(kv)
                got == ROGet(store, Col, key)
            IN  it' = [it EXCEPT
                         !.index = @ + 1,
                         !.out = Append(@, NextResult(got.err = "nil", got.err, key,
                                                      got.val, kv,
                                                      path(Col, key) \notin DOMAIN store))]
       ELSE it' = [it EXCEPT
                     !.pc = "ended",
                     !.out = Append(@, NextResult(FALSE, "nil", <<>>, NoRecord, <<>>,
                                                  FALSE))]
    /\ UNCHANGED <<store, rev, wset, txCalls, calls, last, prev, events, counts,
                   watchVars, fwdVars, cols, wrote, pk, txs>>

NextIter ==
    \/ \E k \in Keys, r \in Records : IterPut(k, r)
    \/ \E k \in Keys, hasVal \in BOOLEAN : IterDelete(k, hasVal)
    \/ \E index \in Indexes : \E v \in IndexVals(index) : IterOpen(index, v)
    \/ IterNext

SpecIter == Init /\ [][NextIter]_vars

(***************************************************************************)
(* Claims on the record collection (specification Spec)                    *)
(***************************************************************************)
\* the index values under which the store holds an index entry for key
EntryVals(st, index, key) ==
    {v \in IndexVals(index) : indexPath(Col, index, v, key) \in DOMAIN st}

CommittedCall(op) == last.op = op /\ last.committed

\* C1: after a transaction whose last call is Put(k, r) commits, for every index
\* GetByIndex(index, v) yields k for r's value v of the indexed field, and
\* GetByIndex(index, v2) does not yield k for any other value v2.
C1_PutIndexCoherence ==
    CommittedCall("Put") =>
        \A index \in Indexes :
            LET v == FieldByName(last.val, index)
            IN  /\ MustYield(store, Col, index, v, last.key)
                /\ \A v2 \in IndexVals(index) \ {v} :
                      ~MayYield(store, Col, index, v2, last.key)

\* C2: after Put(k, r1) and then Put(k, r2), committed, every index whose values
\* v1 and v2 differ has no entry for k under v1 and one under v2;
\* GetByIndex(index, v1) does not yield k and GetByIndex(index, v2) does.
C2_IndexMigration ==
    (CommittedCall("Put") /\ prev.op = "Put" /\ prev.key = last.key) =>
        \A index \in Indexes :
            LET v1 == FieldByName(prev.val, index)
                v2 == FieldByName(last.val, index)
            IN  v1 /= v2 =>
                  /\ v1 \notin EntryVals(store, index, last.key)
                  /\ v2 \in EntryVals(store, index, last.key)
                  /\ ~MayYield(store, Col, index, v1, last.key)
                  /\ MustYield(store, Col, index, v2, last.key)

\* C3: in every committed store every index entry refers to a key whose primary
\* record exists and whose indexed field equals the value in the entry's path.
C3_IndexCoherence ==
    \A index \in Indexes, k \in Keys :
        \A v \in EntryVals(store, index, k) :
            /\ ROGet(store, Col, k).err = "nil"
            /\ FieldByName(ROGet(store, Col, k).val, index) = v

\* C4: after a transaction whose last call is DeleteAll() commits, the store
\* holds no primary record and no index entry of the collection; List() is
\* empty and GetByIndex yields nothing, without error, for every index and value.
C4_DeleteAllClears ==
    CommittedCall("DeleteAll") =>
        /\ \A k \in Keys : path(Col, k) \notin DOMAIN store
        /\ List(store, Col) = {}
        /\ \A index \in Indexes :
              /\ \A k \in Keys : EntryVals(store, index, k) = {}
              /\ \A v \in IndexVals(index) :
                    /\ GetByIndex(store, Col, index, v) = {}
                    /\ ~MayFail(store, Col, index, v)

\* C5: after a successful Create(k, r) and then Delete(k, slot), committed, the
\* primary path of k is absent, no index holds an entry for k, Get(k) is
\* NotFound and GetByIndex(index, v) does not yield k.
C5_DeleteRemovesBoth ==
    (CommittedCall("Delete") /\ last.hasVal /\ prev.op = "Create"
        /\ prev.err = "nil" /\ prev.key = last.key) =>
        /\ path(Col, last.key) \notin DOMAIN store
        /\ ROGet(store, Col, last.key).err = "NotFound"
        /\ \A index \in Indexes :
              /\ EntryVals(store, index, last.key) = {}
              /\ ~MayYield(store, Col, index, FieldByName(prev.val, index), last.key)

\* C6: after a successful Create(k, r), Get(k) through the transaction, and
\* through the read-only view once committed, succeeds and returns r.
C6_CreateGetRoundTrip ==
    (last.op = "Create" /\ last.err = "nil") =>
        /\ RWGet(Tx, store, Col, last.key) = [err |-> "nil", val |-> last.val]
        /\ last.committed =>
              ROGet(store, Col, last.key) = [err |-> "nil", val |-> last.val]

\* C7: a Create(k, r2) that follows a successful Create(k, r1) fails with
\* AlreadyExists and queues nothing: the primary record of k is still r1.
C7_DuplicateCreate ==
    (last.op = "Create" /\ prev.op = "Create" /\ prev.err = "nil"
        /\ prev.key = last.key) =>
        /\ last.err = "Exists"
        /\ last.ops = <<>>
        /\ stmGet(Tx, store, path(Col, last.key)) = Marshal(prev.val)

\* the last call queued an op on path p
Touched(call, p) == \E i \in 1..Len(call.ops) : call.ops[i].path = p

C8_PutStep ==
    (calls' = calls + 1 /\ last'.op = "Put") =>
        \A index \in Indexes :
            LET ip == indexPathFromVal(Col, last'.val, index, last'.key)
            IN  /\ stmGet(Tx, store, ip) = last'.key => ~Touched(last', ip)
                /\ stmGet([w |-> wset', ops |-> <<>>], store, ip) = last'.key

C8_OneEvent ==
    (CommittedCall("Put") /\ prev.op = "Put" /\ prev.committed
        /\ prev.key = last.key) =>
        \A index \in Indexes :
            FieldByName(prev.val, index) = FieldByName(last.val, index) =>
                LET ip == indexPathFromVal(Col, last.val, index, last.key)
                IN  /\ ~Touched(last, ip)
                    /\ \A e \in events : e.key /= ip

\* C8: a Put(k, r) run when the index path of r's value already holds the
\* back-reference k queues no put and no delete on that path, and leaves the
\* path holding k; the second of two Puts of k with the same indexed value,
\* each committed, writes no index entry and its commit raises no event on
\* that index path.
C8_NoReindex == [][C8_PutStep]_vars /\ []C8_OneEvent

\* two committed Puts of a key with different records that agree on one
\* indexed field: its index path is not written again, the other index is
C8_Witness ==
    /\ CommittedCall("Put") /\ prev.op = "Put" /\ prev.committed
    /\ prev.key = last.key /\ prev.val /= last.val
    /\ \E index \in Indexes :
          /\ FieldByName(prev.val, index) = FieldByName(last.val, index)
          /\ ~Touched(last, indexPathFromVal(Col, last.val, index, last.key))
          /\ indexPathFromVal(Col, last.val, index, last.key) \in DOMAIN store
    /\ \E index \in Indexes :
          Touched(last, indexPathFromVal(Col, last.val, index, last.key))

(***************************************************************************)
(* Claims on the integer collection (specification SpecInt)                *)
(***************************************************************************)
\* C9: after Create(k, n) and then i successful Increment(k) and d successful
\* Decrement(k) calls, in any order, Get(k) returns n + i - d.
C9_CounterArithmetic ==
    \A k \in DOMAIN counts :
        IntGet(Tx, store, IntCol, k) =
            [err |-> "nil", val |-> counts[k].n + counts[k].i - counts[k].d]

\* the case Create(k, 5), Increment, Increment, Decrement: 6
C9_Witness ==
    \E k \in DOMAIN counts :
        /\ counts[k] = [n |-> 5, i |-> 2, d |-> 1]
        /\ IntGet(Tx, store, IntCol, k).val = 6
        /\ last.op = "Decrement"

(***************************************************************************)
(* Claims on WatchByIndex (specification SpecWatch)                        *)
(***************************************************************************)
\* the events of s that carry key
RECURSIVE EventsOf(_, _)
EventsOf(s, key) ==
    IF s = <<>> THEN <<>>
    ELSE IF Head(s).key = key THEN <<Head(s)>> \o EventsOf(Tail(s), key)
    ELSE EventsOf(Tail(s), key)

IsPrefixOf(s, t) == Len(s) <= Len(t) /\ SubSeq(t, 1, Len(s)) = s

\* the writer's Create and Delete have both committed
WriterDeleted == wpc = "done" /\ prev.err = "nil" /\ last.err = "nil"

\* the forwarding task has nothing left to translate
Drained == indirectCh = <<>> /\ tr.pc = "recv"

PutThenDelete(key, val) ==
    <<[type |-> "put", key |-> key, val |-> Marshal(val)],
      [type |-> "delete", key |-> key, val |-> <<>>]>>

OnlyDelete(key) == <<[type |-> "delete", key |-> key, val |-> <<>>]>>

C10_WitnessPair ==
    /\ WriterDeleted /\ Drained
    /\ EventsOf(eventCh, WriterKey) = PutThenDelete(WriterKey, prev.val)

(***************************************************************************)
(* Claims on the forwarding task (specifications SpecFwd, SpecFwdFair)     *)
(***************************************************************************)
\* where the subscriber saw an entry of this type on the output channel
Positions(type) == {i \in 1..Len(eventCh) : eventCh[i].type = type}

\* C11: the output channel of WatchByIndex is closed at most once and nothing
\* is sent on it after the close; a task ended by an error event of the watch
\* or by a failed dereference has sent exactly one error event, the last
\* before the close; a task ended by the clean close of the raw channel has
\* closed the output channel without an error event.
C11_SingleTerminalSignal ==
    /\ Cardinality(Positions("closed")) <= 1
    /\ \A i \in Positions("closed") : i = Len(eventCh) /\ tr.pc = "done"
    /\ Cardinality(Positions("error")) <= 1
    /\ \A i \in Positions("error") :
          \/ i = Len(eventCh)
          \/ i = Len(eventCh) - 1 /\ eventCh[Len(eventCh)] = Closed
    /\ tr.pc = "done" /\ tr.ev /= NoEvent =>
          /\ Len(eventCh) >= 2
          /\ eventCh[Len(eventCh) - 1] = ErrorEvent
          /\ eventCh[Len(eventCh)] = Closed
    /\ tr.pc = "done" /\ tr.ev = NoEvent =>
          /\ Positions("error") = {}
          /\ eventCh /= <<>>
          /\ eventCh[Len(eventCh)] = Closed

\* a dereference failed after an event was forwarded, and the task is over
C11_Witness ==
    /\ tr.pc = "done"
    /\ tr.ev.type = "put"
    /\ Len(eventCh) = 3
    /\ eventCh[1].type = "put"

\* the raw channel was closed cleanly and the task is over
C11_WitnessClean ==
    /\ tr.pc = "done"
    /\ tr.ev = NoEvent
    /\ Len(eventCh) >= 2

\* C12: once the caller's context is cancelled, the forwarding task
\* eventually terminates and the output channel is eventually closed, under
\* fair scheduling of the task and the watch, whether or not the caller still
\* receives from the output channel.
C12_CancellationTerminates ==
    (ctx = "cancelled") ~> (tr.pc = "done" /\ Positions("closed") /= {})

\* the same for a caller that never stops receiving
C12_WhileReceiving ==
    (ctx = "cancelled") ~> (~recving \/ (tr.pc = "done" /\ Positions("closed") /= {}))

\* what the task forwards for the raw events it handled: a delete for a
\* delete, under the last segment of the entry's key and without a value; a
\* put with the value read for a put whose key was found; nothing otherwise
RECURSIVE Translate(_)
Translate(s) ==
    IF s = <<>> THEN <<>>
    ELSE LET h == Head(s)
             out == IF h.outcome = "delete"
                    THEN <<[type |-> "delete", key |-> Base(h.ev.key), val |-> <<>>]>>
                    ELSE IF h.outcome = "found"
                    THEN <<[type |-> "put", key |-> Base(h.ev.key), val |-> h.val]>>
                    ELSE <<>>
         IN  out \o Translate(Tail(s))

IsForward(e) == e.type \in {"put", "delete"}

\* the put and delete events the subscriber received, in order
Forwarded == SelectSeq(eventCh, IsForward)

\* C16: the events on the output channel are the translation of the raw
\* index events in their order: deletes become deletes under the primary
\* key with no value, puts whose key is present at the dereference become
\* puts with the key and the value read, puts whose key is absent are
\* dropped, without an error event and without ending the task.
C16_EventTranslation ==
    /\ Translate(seen) = IF tr.pc = "send" THEN Append(Forwarded, tr.directEv)
                         ELSE Forwarded
    /\ seen /= <<>> /\ seen[Len(seen)].outcome = "absent" =>
          /\ Positions("error") = {}
          /\ tr.pc \in {"recv", "deref", "done"}
          /\ tr.pc = "done" => tr.ev = NoEvent

\* a put was dropped, the delete and a later put were forwarded
C16_Witness ==
    /\ Len(seen) = 3
    /\ seen[1].outcome = "absent"
    /\ Len(Forwarded) = 2
    /\ Forwarded[1].type = "delete"
    /\ Forwarded[2].type = "put"

(***************************************************************************)
(* Claims on the two views of one collection (specification SpecMixed)     *)
(***************************************************************************)
\* the text the open transaction reads at the primary path of key
TextAt(key) == stmGet(Tx, store, path(Col, key))

\* C13: Get of the integer collection on a key whose stored text is not
\* empty and is not a decimal integer fails with MalformedValue, the error
\* Increment and Decrement return for that text.
C13_IntGetMalformed ==
    (/\ last.op = "IntGet"
     /\ TextAt(last.key) /= <<>>
     /\ ~Atoi(TextAt(last.key)).ok)
    => /\ last.err = "MalformedValue"
       /\ last.err = Increment(Tx, store, Col, last.key).err
       /\ last.err = Decrement(Tx, store, Col, last.key).err

\* C14: a Put whose read of the record currently stored fails for a reason
\* other than absence returns that failure to its caller.
C14_PutStep ==
    (/\ calls' = calls + 1
     /\ last'.op = "Put"
     /\ RWGet(Tx, store, Col, last'.key).err = "Unmarshal")
    => last'.err = "Unmarshal"

C14_PutPropagates == [][C14_PutStep]_vars

\* C20: a call on a transactional view that returns an error (NotFound from
\* Get or Delete on an absent key, of records or integers, and from
\* Increment or Decrement; MalformedValue from Increment or Decrement on
\* text that is no integer; AlreadyExists from Create on a present key) has
\* queued no put, delete or range delete: the transaction's writes and what
\* it reads at every path are as before the call.
C20_Step ==
    (calls' = calls + 1 /\ last'.err /= "nil")
    => /\ last'.ops = <<>>
       /\ wset' = wset
       /\ store' = store
       /\ \A p \in DOMAIN store \cup DOMAIN wset \cup DOMAIN wset' :
             stmGet([w |-> wset', ops |-> <<>>], store', p) = stmGet(Tx, store, p)

C20_FailedCallFrame == [][C20_Step]_vars

\* an Increment failed on a record's text in a transaction that has writes
C20_Witness ==
    /\ last.op = "Increment"
    /\ last.err = "MalformedValue"
    /\ wset /= EmptyMap

Steps == 1..(IF Len(it.out) < Len(it.kvs) THEN Len(it.out) ELSE Len(it.kvs))

\* the n-th Next call is at the n-th entry, and at an entry whose primary
\* record is absent it returns not-ok with NotFound
C17_DanglingEntry ==
    \A n \in Steps :
        /\ it.out[n].entry = it.kvs[n]
        /\ it.out[n].key = Base(it.kvs[n])
        /\ it.out[n].absent => ~it.out[n].ok /\ it.out[n].err = "NotFound"

\* C17: a Next call of GetByIndex's sequence that is at an index entry whose
\* primary record is absent then returns not-ok with NotFound and does not
\* skip the entry; a sequence over entries whose primary records all exist
\* yields each referenced key exactly once and then ends.
C17_IndirectIterator ==
    /\ C17_DanglingEntry
    /\ (it.pc = "ended" /\ \A n \in Steps : ~it.out[n].absent) =>
          /\ Len(it.out) = Len(it.kvs) + 1
          /\ ~it.out[Len(it.out)].ok /\ it.out[Len(it.out)].err = "nil"
          /\ \A n \in Steps :
                Cardinality({x \in Steps : it.out[x].ok
                                            /\ it.out[x].key = Base(it.kvs[n])}) = 1

\* a sequence stepped to its end that hit a dangling entry after a yield
C17_Dangling ==
    /\ it.pc = "ended"
    /\ \E n \in Steps : it.out[n].absent /\ n > 1 /\ it.out[1].ok

(***************************************************************************)
(* Claims on the primary path (specification SpecPath)                     *)
(***************************************************************************)
\* C18: the primary path of a key is the collection prefix followed by the
\* key exactly, for every key (empty, with "/", ".", "..", ending in "/"),
\* and two different keys never have the same primary path.
C18_PrimaryPath ==
    pk.pc = "done" =>
        /\ \A n \in 1..2 : pk.paths[n] = Col.prefix \o pk.keys[n]
        /\ pk.keys[1] /= pk.keys[2] => pk.paths[1] /= pk.paths[2]

\* the same for keys that path.Clean leaves as they are
C18_CleanKeys ==
    (/\ pk.pc = "done"
     /\ \A n \in 1..2 : pk.keys[n] /= <<>> /\ Col.prefix \o pk.keys[n] = Clean(Col.prefix \o pk.keys[n]))
    => /\ \A n \in 1..2 : pk.paths[n] = Col.prefix \o pk.keys[n]
       /\ pk.keys[1] /= pk.keys[2] => pk.paths[1] /= pk.paths[2]

(***************************************************************************)
(* Claims on concurrent transactions (specification SpecConc)              *)
(***************************************************************************)
\* the committed value of the counter key
Committed(key) == Atoi(store[path(IntCol, key)].val)

\* C19: whatever the interleaving of concurrent transactions that increment
\* and decrement a counter, under a store that commits a transaction only if
\* what it read is unchanged, the committed value is the value created plus
\* the increments minus the decrements of the committed transactions.
C19_NoLostUpdate ==
    \A key \in DOMAIN counts :
        /\ path(IntCol, key) \in DOMAIN store
        /\ Committed(key).ok
        /\ Committed(key).val = counts[key].n + counts[key].i - counts[key].d

\* two transactions read the same value of a counter; one committed, the other
\* was refused, ran again and committed
C19_Witness ==
    /\ \A t \in DOMAIN txs : txs[t].pc = "committed"
    /\ \E t \in DOMAIN txs : txs[t].retried
    /\ \E key \in DOMAIN counts : counts[key].i >= 1 /\ counts[key].d >= 1

====
